---- MODULE Spec2Model ----
(***************************************************************************)
(* GadoBot: the per-chat promise queue of src/src/index.ts and the message *)
(* handlers of src/unnamed/part_000 (imported by index.ts as './ai').      *)
(*                                                                         *)
(* The program runs on a single-threaded event loop.  A step of the model  *)
(* is one turn of that loop: the synchronous code that runs between two    *)
(* await points of one task.  A task is suspended at the await point named *)
(* by its pc; TimerFires, TransportReturns and HttpReturns resume it.      *)
(*                                                                         *)
(* Strings are sequences of tokens <<kind, id>>: a word carries an id, a   *)
(* command tag or a keyword is one token.                                  *)
(***************************************************************************)
EXTENDS Integers, Sequences, FiniteSets, TLC

VARIABLES
    chatQueues,        \* index.ts:8   key -> the promise at the tail of the chain
    tasks,             \* per chat, every handler given to queueMessage, by ticket
    messageContexts,   \* part_000:29  chat -> sequence of turns
    lastBotMessages,   \* part_000:30  chat -> sequence of sent message ids
    gifs,              \* part_000:20  rows of table gifs, in insertion order
    logUp,             \* whether a write to table logs succeeds right now
    outcome,           \* per chat, what the handler that finished last did
    arrived,           \* number of updates / enqueue calls so far
    faults             \* number of injected failures so far

vars == <<chatQueues, tasks, messageContexts, lastBotMessages, gifs, logUp,
          outcome, arrived, faults>>

\* ------------------------------------------------------------------ bounds

\* enqueue calls in the queue specification
MaxTasks == 4
\* updates received in the bot specification
MaxMsgs == 2
\* updates received in the long-conversation specification
MaxCtxMsgs == 11
\* tasks of one chat that are enqueued and not yet settled
MaxPending == 2
\* injected failures (transport, HTTP, log write)
MaxFaults == 1

Chats == {1, 2}

\* index.ts:20  process.env.ALLOWED_CHAT_ID
AllowedChatId == 1

\* ------------------------------------------------------------------ strings

SP == <<"sp", 0>>
W == <<"w", 0>>
\* the configured TRIGGER_WORD at the start of a text
TRIG == <<"T", 0>>
\* 'draw' or its Russian form
DRAW == <<"draw", 0>>
\* %Reaction(x)% with a non-empty x
RTAG == <<"R", 0>>
\* %sendGif%
GTAG == <<"G", 0>>

Word(i) == <<"w", i>>

\* Array.prototype.slice(-k): the last k elements, all of them when shorter
SliceLast(s, k) == IF Len(s) <= k THEN s ELSE SubSeq(s, Len(s) - k + 1, Len(s))

RECURSIVE TrimLeft(_)
TrimLeft(s) == IF s # <<>> /\ Head(s) = SP THEN TrimLeft(Tail(s)) ELSE s

RECURSIVE TrimRight(_)
TrimRight(s) ==
    IF s # <<>> /\ s[Len(s)] = SP THEN TrimRight(SubSeq(s, 1, Len(s) - 1)) ELSE s

\* String.prototype.trim
Trim(s) == TrimRight(TrimLeft(s))

\* index of the first occurrence of token t in s, 0 when there is none
FirstIndex(s, t) ==
    IF \E i \in 1..Len(s) : s[i] = t
    THEN CHOOSE i \in 1..Len(s) : s[i] = t /\ \A j \in 1..(i - 1) : s[j] # t
    ELSE 0

RemoveAt(s, i) == SubSeq(s, 1, i - 1) \o SubSeq(s, i + 1, Len(s))

\* part_000:167  /%Reaction\(([^)]+)\)%/ : one capturing group
ReactionPattern == [tag |-> RTAG, groups |-> 1]
\* part_000:168  /%sendGif%/ : no capturing group
GifPattern == [tag |-> GTAG, groups |-> 0]

\* match[1]: the text of group 1, undefined when the pattern has no group 1
MatchGroup1(pattern) == IF pattern.groups >= 1 THEN "emoji" ELSE "undefined"

\* part_000:43-46  returns <<extracted value, remaining text>>
extractCommand(response, pattern) ==
    LET i == FirstIndex(response, pattern.tag)
    IN  IF i # 0
        THEN <<MatchGroup1(pattern), Trim(RemoveAt(response, i))>>
        ELSE <<"null", response>>

\* JavaScript truthiness of an extracted value
Truthy(v) == v \notin {"null", "undefined", ""}

\* ------------------------------------------------------------------ tasks

NoMsg == [chat |-> 0, mid |-> 0, kind |-> "none", text |-> <<>>,
          reply |-> FALSE, file |-> 0]

\* The initial promise of a chat, Promise.resolve() of index.ts:12
ResolvedPromise == <<0, 0>>

\* A handler given to queueMessage with the promise `current` made for it.
\*   st       state of `current`: pending, resolved, rejected
\*   pc       queued, an await point of the handler, done, skipped
\*   prev     the promise `previous` the handler is chained on: <<chat, ticket>>
\*   fails    a handler that is not the bot's: whether it rejects
\*   context .. finalResponse, file: the locals of the handler
\*   post     what the backend call returned: none, throw, absent, text
\*   request  the messages of the last backend request
\*   tr       the calls the handler has made, in order
\*   down     the transport calls of the handler that failed
\*   escaped  whether an exception left handleMessage / getAIPicture
\*   result   the content of the backend's answer (part_000:121)
\*   fn       the function the bot's handler went into
\*   seq      the position of the enqueue call among all enqueue calls
\*   ctx0, last0, rows0  the chat's context and sent ids and the number of
\*            rows of gifs when the handler began; ctx1, last1, rows1 when it
\*            ended
BlankTask ==
    [kind |-> "none", msg |-> NoMsg, fails |-> FALSE, prev |-> ResolvedPromise,
     st |-> "pending", pc |-> "queued", seq |-> 0, fn |-> "none",
     context |-> <<>>, text |-> <<>>, isReplyToBot |-> FALSE,
     aiResponse |-> <<>>, reaction |-> "null", gifCommand |-> "null",
     finalResponse |-> <<>>, file |-> 0, post |-> "none", result |-> <<>>,
     request |-> <<>>, tr |-> <<>>, down |-> {}, escaped |-> FALSE,
     ctx0 |-> <<>>, last0 |-> <<>>, rows0 |-> 0,
     ctx1 |-> <<>>, last1 |-> <<>>, rows1 |-> 0]

NewTask(kind, msg, fails, prev, seq) ==
    [BlankTask EXCEPT !.kind = kind, !.msg = msg, !.fails = fails, !.prev = prev,
                      !.seq = seq]

\* what is kept of a handler once its promise is settled
Settled(st, pc) == [BlankTask EXCEPT !.st = st, !.pc = pc]

Tickets(c) == 1..Len(tasks[c])

InProgress(t) == t.pc \notin {"queued", "done", "skipped"}

Pending(c) == {n \in Tickets(c) : tasks[c][n].st = "pending"}

PromiseStateSettled(p) == "resolved"
PromiseState(p) == IF p = ResolvedPromise THEN "resolved" ELSE tasks[p[1]][p[2]].st

\* index.ts:11  const chatId = ctx.chat.id: the key of the chat's chain
ChatKeyShared(c) == AllowedChatId
ChatKey(c) == c

\* index.ts:12  chatQueues.get(chatId) || Promise.resolve()
PreviousNone(c) == ResolvedPromise
Previous(c) == chatQueues[ChatKey(c)]

\* index.ts:13  .catch(e => handleError('Queue error', e, ...)): the state of
\* `current` after a rejection reached the catch callback.  handleError
\* (part_000:38-41) calls logEvent and does not catch what it throws.
QueueCatch(up) == IF up THEN "resolved" ELSE "rejected"

\* index.ts:10-16  queueMessage(ctx, handler)
queueMessage(c, kind, msg, fails) ==
    /\ tasks' = [tasks EXCEPT ![c] = Append(@, NewTask(kind, msg, fails, Previous(c),
                                                        arrived + 1))]
    /\ chatQueues' = [chatQueues EXCEPT ![ChatKey(c)] = <<c, Len(tasks[c]) + 1>>]

\* The handler of ticket n is over: `current` settles and the locals are dropped.
Finish(c, n, m, rejected) ==
    /\ tasks' = [tasks EXCEPT ![c][n] =
                    Settled(IF rejected THEN QueueCatch(logUp) ELSE "resolved", "done")]
    /\ outcome' = [outcome EXCEPT ![c] =
                      [m.t EXCEPT !.pc = "done", !.ctx1 = m.ctx, !.last1 = m.last,
                                  !.rows1 = Len(m.gifs)]]

\* The handler of ticket n is suspended at another await point.
Suspend(c, n, t) ==
    /\ tasks' = [tasks EXCEPT ![c][n] = t]
    /\ UNCHANGED outcome

\* Whether the promise of a handler that is over rejects.  The bot's handler
\* (index.ts:22-56) catches whatever its body throws at lines 53-55 and only
\* prints it, so it rejects no more than a handler that does not fail.
HandlerRejectsUncaught(t) == t.fails \/ t.escaped
HandlerRejects(t) == t.fails

\* one turn of the event loop ends with the handler in state t
Continue(c, n, m) ==
    IF m.t.pc = "done" THEN Finish(c, n, m, HandlerRejects(m.t))
    ELSE Suspend(c, n, m.t)

\* ------------------------------------------------------------------ handlers
\* A handler's turn maps a machine state
\*   [t: the handler, ctx: messageContexts[chat], last: lastBotMessages[chat],
\*    gifs: the gifs table]
\* to the machine state it leaves; `up` is logUp during the turn.

\* part_000:179  context.slice(-18)
ContextKeep == 18
\* part_000:110  context.slice(-8)
ContextWindow == 8
\* part_000:193  current.slice(-9)
LastKeep == 9

Turn(role, content) == [role |-> role, content |-> content]

Call(m, ev) == [m EXCEPT !.t.tr = Append(@, ev)]
At(m, pc) == [m EXCEPT !.t.pc = pc]
Down(m) == [m EXCEPT !.t.down = @ \cup {m.t.pc}]

\* part_000:32-36  logEvent: the row is written when the table can be written
\* (`up`); when it cannot, the INSERT throws and nothing is written
logEvent(m, up, ev) == IF up THEN Call(m, ev) ELSE m

\* part_000:38-41  handleError: one logEvent call, not guarded
handleError(m, up) == logEvent(m, up, "log:ERROR")

\* A catch block that calls handleError and then returns (part_000:54-57,
\* 69-72, 124-127, 147-149, 196-198): the error is logged, or the exception of
\* logEvent leaves the function and its callers up to index.ts:53, which only
\* prints it.
Caught(m, up) ==
    At([handleError(m, up) EXCEPT !.t.escaped = ~up], "done")

\* part_000:97-99  the catch block of getAIPicture logs and throws again
Rethrown(m, up) ==
    At([handleError(m, up) EXCEPT !.t.escaped = TRUE], "done")

\* a logEvent call on the success path of a try block: when the write throws,
\* the catch block of the function calls handleError, whose logEvent throws too
Logged(m, up, ev) == IF up THEN logEvent(m, up, ev) ELSE Caught(m, FALSE)

\* index.ts:32-33  drawRegex ^(TRIGGER\s+)?(draw|...)\s+(.+)$
AfterTrigger(text) ==
    IF Len(text) >= 2 /\ text[1] = TRIG /\ text[2] = SP
    THEN TrimLeft(Tail(text)) ELSE text
DrawMatchNever(text) == FALSE
DrawMatch(text) ==
    LET rest == AfterTrigger(text)
    IN  Len(rest) >= 3 /\ rest[1] = DRAW /\ rest[2] = SP

\* index.ts:46-47  triggerRegex ^TRIGGER\s*(.*)
IsTrigger(text) == text # <<>> /\ text[1] = TRIG
\* index.ts:50
CommandText(text) == IF IsTrigger(text) THEN Trim(Tail(text)) ELSE text

\* part_000:173-175  the reply branch, up to the second delay
AfterGif(m) ==
    IF m.t.finalResponse # <<>> THEN At(m, "delay2") ELSE At(m, "done")

\* part_000:171 and 60-66  if (gifCommand) await handleGifCommand(ctx)
AfterReaction(m) ==
    IF Truthy(m.t.gifCommand)
    THEN IF m.gifs = <<>> THEN AfterGif(Call(m, "select"))
         ELSE At(Call(Call(m, "select"), "anim"), "anim")
    ELSE AfterGif(m)

\* part_000:170 and 48-51  await handleReaction(ctx, reaction)
handleReaction(m) ==
    IF ~Truthy(m.t.reaction) THEN AfterReaction(m)
    ELSE At(Call(m, "react"), "react")

\* part_000:167-168  the two extraction passes
Extracted(m, aiResponse) ==
    LET r == extractCommand(aiResponse, ReactionPattern)
        g == extractCommand(r[2], GifPattern)
    IN  Call([m EXCEPT !.t.aiResponse = aiResponse, !.t.reaction = r[1],
                       !.t.gifCommand = g[1], !.t.finalResponse = g[2]],
             "extract")

\* part_000:121-127  what getAIResponse does with the outcome r of axios.post:
\* it returns the content ("text"), returns null, or throws because the
\* logEvent of handleError throws
Returned(ret, body) == [ret |-> ret, body |-> body]
getAIResponseFallback(r, up) ==
    IF ~up /\ r.kind # "absent" THEN Returned("throw", <<>>)
    ELSE Returned("text", IF r.kind = "text" /\ r.body # <<>> THEN r.body ELSE <<W>>)
getAIResponse(r, up) ==
    IF r.kind = "text" /\ r.body # <<>>
    THEN IF up THEN Returned("text", r.body) ELSE Returned("throw", <<>>)
    ELSE IF r.kind = "throw" /\ ~up THEN Returned("throw", <<>>)
    ELSE Returned("null", <<>>)

\* part_000:164-171  the backend call returned r
AfterPostLogLast(m, r, up) ==
    LET ret == getAIResponse(r, up)
        m1 == [m EXCEPT !.t.post = r.kind, !.t.result = r.body]
    IN  IF ret.ret = "text"
        THEN handleReaction(Call(Extracted(m1, ret.body), "log:RESPONSE"))
        ELSE At(m1, "done")
AfterPost(m, r, up) ==
    LET ret == getAIResponse(r, up)
        m1 == [m EXCEPT !.t.post = r.kind, !.t.result = r.body]
        m2 == IF ~up THEN m1
              ELSE IF r.kind = "throw" THEN Call(m1, "log:ERROR")
              ELSE IF r.kind = "text" /\ r.body # <<>> THEN Call(m1, "log:RESPONSE")
              ELSE m1
    IN  IF ret.ret = "throw" THEN Caught(m1, FALSE)
        ELSE IF ret.ret = "null" THEN At(m2, "done")
        ELSE handleReaction(Extracted(m2, ret.body))

\* part_000:105-119  the request of getAIResponse
RequestWhole(prompt, context) ==
    <<Turn("system", <<>>)>> \o context \o <<Turn("user", prompt)>>
Request(prompt, context) ==
    <<Turn("system", <<>>)>> \o SliceLast(context, ContextWindow)
        \o <<Turn("user", prompt)>>

\* part_000:164  `${userName}: ${text}`
Prompt(text) == <<<<"name", 0>>>> \o text

\* part_000:177-183  messageContexts.set(chatId, [...])
NewContextTruncatedAfter(context, text, finalResponse) ==
    SliceLast(context \o <<Turn("user", text), Turn("assistant", finalResponse)>>,
              ContextKeep)
NewContextOddKeep(context, text, finalResponse) ==
    SliceLast(context, ContextKeep - 1)
        \o <<Turn("user", text), Turn("assistant", finalResponse)>>
NewContext(context, text, finalResponse) ==
    SliceLast(context, ContextKeep)
        \o <<Turn("user", text), Turn("assistant", finalResponse)>>

\* part_000:191-194
NewLast(current, id) == SliceLast(current, LastKeep) \o <<id>>

\* part_000:135  SELECT 1 FROM gifs WHERE hash = ?
ExistingNever(g, hash) == FALSE
Existing(g, hash) == \E i \in 1..Len(g) : g[i].hash = hash

\* part_000:141 and 25  INSERT OR IGNORE under PRIMARY KEY(hash, url)
InsertOrIgnore(g, row) ==
    IF \E i \in 1..Len(g) : g[i].hash = row.hash /\ g[i].url = row.url
    THEN g ELSE Append(g, row)

\* part_000:144  `t.me/${chat.id}/${message_id}`
Url(msg) == <<msg.chat, msg.mid>>

\* the id of the message ctx.reply sent in answer to msg
SentId(msg) == msg.mid

\* part_000:157  isReplyToBot ? messageContexts.get(chatId) || [] : []
LoadContextAlways(isReplyToBot, stored) == stored
LoadContext(isReplyToBot, stored) == IF isReplyToBot THEN stored ELSE <<>>

\* index.ts:22-56  the handler of bot.on, up to its first await
BotBegin(m) ==
    LET msg == m.t.msg
        isReplyToBot == msg.reply
    IN  IF msg.kind = "anim"
        THEN At(Call([m EXCEPT !.t.fn = "handleGifUpload"], "getFile"), "getFile")
        ELSE IF msg.text = <<>> THEN At(m, "done")
        ELSE IF DrawMatch(msg.text)
        THEN At(Call([m EXCEPT !.t.fn = "getAIPicture",
                               !.t.text = Trim(SubSeq(AfterTrigger(msg.text), 3,
                                                      Len(AfterTrigger(msg.text))))],
                     "imgget"), "imgget")
        ELSE IF IsTrigger(msg.text) \/ isReplyToBot
        THEN At(Call([m EXCEPT !.t.fn = "handleMessage",
                               !.t.text = CommandText(msg.text),
                               !.t.isReplyToBot = isReplyToBot,
                               !.t.context = LoadContext(isReplyToBot, m.ctx)],
                     "lookup"), "delay1")
        ELSE At(m, "done")

\* a handler begins: previous.then(handler)
Begin(m) ==
    LET m0 == [m EXCEPT !.t.ctx0 = m.ctx, !.t.last0 = m.last,
                        !.t.rows0 = Len(m.gifs)]
    IN  IF m.t.kind = "generic" THEN At(m0, "work") ELSE BotBegin(m0)

\* a timer the handler awaits fires
AfterTimer(m) ==
    CASE m.t.pc = "work" -> At(m, "done")
      [] m.t.pc = "delay1" -> At(Call(m, "typing"), "typing1")
      [] m.t.pc = "delay2" -> At(Call(m, "typing"), "typing2")

\* a transport call the handler awaits returns res: ok, fail, or nopath
\* (getFile answered without a file_path)
AfterTransport(m, res, up) ==
    LET t == m.t IN
    CASE t.pc = "typing1" ->
            IF res = "ok"
            THEN At(Call([m EXCEPT !.t.request = Request(Prompt(t.text), t.context)],
                         "post"), "post")
            ELSE Caught(Down(m), up)
      [] t.pc = "react" ->
            IF res = "ok"
            THEN IF up THEN AfterReaction(Call(m, "log:REACTION")) ELSE Caught(m, FALSE)
            ELSE IF up THEN AfterReaction(Call(Down(m), "log:ERROR"))
                 ELSE Caught(Down(m), FALSE)
      [] t.pc = "anim" ->
            IF res = "ok"
            THEN IF up THEN AfterGif(Call(m, "log:GIF_SENT")) ELSE Caught(m, FALSE)
            ELSE IF up THEN AfterGif(Call(Down(m), "log:ERROR"))
                 ELSE Caught(Down(m), FALSE)
      [] t.pc = "typing2" ->
            IF res = "ok"
            THEN LET m1 == IF t.isReplyToBot
                           THEN Call([m EXCEPT !.ctx = NewContext(t.context, t.text,
                                                                  t.finalResponse)],
                                     "context")
                           ELSE m
                 IN  At(Call(m1, "reply"), "reply")
            ELSE Caught(Down(m), up)
      [] t.pc = "reply" ->
            IF res = "ok"
            THEN IF t.isReplyToBot /\ ~Truthy(t.gifCommand)
                 THEN At(Call([m EXCEPT !.last = NewLast(m.last, SentId(t.msg))],
                              "record"), "done")
                 ELSE At(m, "done")
            ELSE Caught(Down(m), up)
      [] t.pc = "getFile" ->
            IF res = "fail" THEN Caught(Down(m), up)
            ELSE IF res = "nopath" THEN At(m, "done")
            ELSE IF Existing(m.gifs, t.msg.file)
            THEN At([m EXCEPT !.t.file = t.msg.file], "done")
            ELSE At(Call([m EXCEPT !.t.file = t.msg.file], "download"), "download")
      [] t.pc = "photo" ->
            IF res = "ok" THEN IF up THEN At(Call(m, "log:RESPONSE"), "done")
                               ELSE Rethrown(m, FALSE)
            ELSE Rethrown(Down(m), up)

\* an HTTP call the handler awaits returns r
AfterHttp(m, r, up) ==
    LET t == m.t IN
    CASE t.pc = "post" -> AfterPost(m, r, up)
      [] t.pc = "download" ->
            IF r.kind = "throw" THEN Caught([m EXCEPT !.t.post = r.kind], up)
            ELSE At(Logged(Call([m EXCEPT !.gifs = InsertOrIgnore(m.gifs,
                                            [hash |-> t.file, url |-> Url(t.msg)]),
                                          !.t.post = r.kind],
                                "insert"),
                           up, "log:GIF_SAVED"), "done")
      [] t.pc = "imgget" ->
            IF r.kind = "text" /\ r.body # <<>>
            THEN At(Call([m EXCEPT !.t.post = r.kind], "photo"), "photo")
            ELSE Rethrown([m EXCEPT !.t.post = r.kind], up)

\* ------------------------------------------------------------------ inputs

Ai(kind, body) == [kind |-> kind, body |-> body]

\* what axios.post can answer: no answer, an answer without content, a text
AllAi == {Ai("throw", <<>>), Ai("absent", <<>>), Ai("text", <<W>>),
          Ai("text", <<RTAG, SP, W>>), Ai("text", <<W, SP, GTAG>>),
          Ai("text", <<RTAG, SP, GTAG>>)}
CtxAi == {Ai("throw", <<>>), Ai("text", <<W>>), Ai("text", <<RTAG, SP, W, SP, GTAG>>)}

\* what axios.get can answer
GetMenu == {Ai("throw", <<>>), Ai("absent", <<>>), Ai("text", <<W>>)}

HttpMenu(pc, aiMenu) ==
    IF pc = "post" THEN aiMenu
    ELSE IF pc = "imgget" THEN GetMenu
    ELSE GetMenu \ {Ai("absent", <<>>)}

TransportResults(pc) ==
    IF pc = "getFile" THEN {"ok", "fail", "nopath"} ELSE {"ok", "fail"}

Msg(chat, mid, kind, text, reply, file) ==
    [chat |-> chat, mid |-> mid, kind |-> kind, text |-> text, reply |-> reply,
     file |-> file]

\* the texts of the i-th update
Texts(i) == {<<Word(i)>>, <<TRIG, SP, Word(i)>>, <<DRAW, SP, Word(i)>>,
             <<TRIG, SP, DRAW, SP, Word(i)>>}

\* uploads <<message id, file_unique_id>>: message 1 can be delivered again,
\* message 2 carries the file of message 1, message 3 another file
Uploads == {<<1, 1>>, <<2, 1>>, <<3, 2>>}

\* the i-th update of the bot: from another chat, an animation, a message
\* without text or animation, a text
AllMsgs(i) ==
    {Msg(c, i, "text", <<TRIG, SP, Word(i)>>, FALSE, 0) : c \in Chats \ {AllowedChatId}}
    \cup {Msg(AllowedChatId, u[1], "anim", <<>>, FALSE, u[2]) : u \in Uploads}
    \cup {Msg(AllowedChatId, i, "other", <<>>, FALSE, 0)}
    \cup {Msg(AllowedChatId, i, "text", x, r, 0) : x \in Texts(i), r \in BOOLEAN}

\* the i-th update of a long conversation: a reply to the bot
CtxMsgs(i) == {Msg(AllowedChatId, i, "text", <<Word(i)>>, TRUE, 0)}

\* ------------------------------------------------------------------ actions

Init ==
    /\ chatQueues = [c \in Chats |-> ResolvedPromise]
    /\ tasks = [c \in Chats |-> <<>>]
    /\ messageContexts = [c \in Chats |-> <<>>]
    /\ lastBotMessages = [c \in Chats |-> <<>>]
    /\ gifs = <<>>
    /\ logUp = TRUE
    /\ outcome = [c \in Chats |-> BlankTask]
    /\ arrived = 0
    /\ faults = 0

Machine(c, n) ==
    [t |-> tasks[c][n], ctx |-> messageContexts[c], last |-> lastBotMessages[c],
     gifs |-> gifs]

Commit(c, n, m) ==
    /\ Continue(c, n, m)
    /\ messageContexts' = [messageContexts EXCEPT ![c] = m.ctx]
    /\ lastBotMessages' = [lastBotMessages EXCEPT ![c] = m.last]
    /\ gifs' = m.gifs

Fault(failed) ==
    /\ failed => faults < MaxFaults
    /\ faults' = IF failed THEN faults + 1 ELSE faults

\* index.ts:10-16 called with a handler that is not the bot's: it awaits a
\* timer and then resolves or rejects
Enqueue(c, fails) ==
    /\ arrived < MaxTasks
    /\ Cardinality(Pending(c)) < MaxPending
    /\ arrived' = arrived + 1
    /\ queueMessage(c, "generic", NoMsg, fails)
    /\ UNCHANGED <<messageContexts, lastBotMessages, gifs, logUp, outcome, faults>>

\* index.ts:18-22  bot.on('message'): an update arrives
OnMessage(msg, limit) ==
    /\ arrived < limit
    /\ Cardinality(Pending(msg.chat)) < MaxPending
    /\ arrived' = arrived + 1
    /\ IF msg.chat # AllowedChatId
       THEN UNCHANGED <<tasks, chatQueues>>
       ELSE queueMessage(msg.chat, "bot", msg, FALSE)
    /\ UNCHANGED <<messageContexts, lastBotMessages, gifs, logUp, outcome, faults>>

\* index.ts:13  previous.then(handler).catch(...): `previous` is settled
RunNext(c, n) ==
    /\ n \in Tickets(c)
    /\ tasks[c][n].pc = "queued"
    /\ PromiseState(tasks[c][n].prev) # "pending"
    /\ IF PromiseState(tasks[c][n].prev) = "resolved"
       THEN Commit(c, n, Begin(Machine(c, n)))
       ELSE /\ tasks' = [tasks EXCEPT ![c][n] = Settled(QueueCatch(logUp), "skipped")]
            /\ UNCHANGED <<messageContexts, lastBotMessages, gifs, outcome>>
    /\ UNCHANGED <<chatQueues, logUp, arrived, faults>>

\* part_000:161, 174 and the timer of a handler that is not the bot's
TimerFires(c, n) ==
    /\ n \in Tickets(c)
    /\ tasks[c][n].pc \in {"work", "delay1", "delay2"}
    /\ Commit(c, n, AfterTimer(Machine(c, n)))
    /\ UNCHANGED <<chatQueues, logUp, arrived, faults>>

\* part_000:51, 66, 88, 132, 162, 175, 186  a call of the Telegram API returns
TransportReturns(c, n) ==
    /\ n \in Tickets(c)
    /\ tasks[c][n].pc \in {"typing1", "react", "anim", "typing2", "reply",
                           "getFile", "photo"}
    /\ \E res \in TransportResults(tasks[c][n].pc) :
          /\ Fault(res = "fail")
          /\ Commit(c, n, AfterTransport(Machine(c, n), res, logUp))
    /\ UNCHANGED <<chatQueues, logUp, arrived>>

\* part_000:84, 108, 139  an axios call returns
HttpReturns(c, n, aiMenu) ==
    /\ n \in Tickets(c)
    /\ tasks[c][n].pc \in {"post", "download", "imgget"}
    /\ \E r \in HttpMenu(tasks[c][n].pc, aiMenu) :
          /\ Fault(r.kind = "throw")
          /\ Commit(c, n, AfterHttp(Machine(c, n), r, logUp))
    /\ UNCHANGED <<chatQueues, logUp, arrived>>

\* writes to table logs start to fail (locked or full database)
LogFails ==
    /\ logUp
    /\ Fault(TRUE)
    /\ logUp' = FALSE
    /\ UNCHANGED <<chatQueues, tasks, messageContexts, lastBotMessages, gifs,
                   outcome, arrived>>

\* writes to table logs succeed again
LogRecovers ==
    /\ ~logUp
    /\ logUp' = TRUE
    /\ UNCHANGED <<chatQueues, tasks, messageContexts, lastBotMessages, gifs,
                   outcome, arrived, faults>>

Slots == 1..(MaxCtxMsgs + MaxTasks)

\* the queue alone, given handlers that are not the bot's
NextQueue ==
    \/ \E c \in Chats, fails \in BOOLEAN : Enqueue(c, fails)
    \/ \E c \in Chats, n \in Slots : RunNext(c, n)
    \/ \E c \in Chats, n \in Slots : TimerFires(c, n)
    \/ LogFails
    \/ LogRecovers

NextBot(aiMenu) ==
    \/ \E c \in Chats, n \in Slots : RunNext(c, n)
    \/ \E c \in Chats, n \in Slots : TimerFires(c, n)
    \/ \E c \in Chats, n \in Slots : TransportReturns(c, n)
    \/ \E c \in Chats, n \in Slots : HttpReturns(c, n, aiMenu)
    \/ LogFails
    \/ LogRecovers

\* the bot, every kind of update
Next ==
    \/ \E msg \in AllMsgs(arrived + 1) : OnMessage(msg, MaxMsgs)
    \/ NextBot(AllAi)

\* the bot in one long conversation
NextCtx ==
    \/ \E msg \in CtxMsgs(arrived + 1) : OnMessage(msg, MaxCtxMsgs)
    \/ NextBot(CtxAi)

SpecQueue == Init /\ [][NextQueue]_vars
Spec == Init /\ [][Next]_vars
SpecCtx == Init /\ [][NextCtx]_vars

\* the i-th update of the bot, one for each function the handler goes into: an
\* animation, an image request, a reply to the bot
LiveMsgs(i) ==
    {Msg(AllowedChatId, i, "anim", <<>>, FALSE, 1),
     Msg(AllowedChatId, i, "text", <<TRIG, SP, DRAW, SP, Word(i)>>, FALSE, 0),
     Msg(AllowedChatId, i, "text", <<Word(i)>>, TRUE, 0)}
LiveAi == {Ai("throw", <<>>), Ai("text", <<RTAG, SP, W>>)}

NextLive ==
    \/ \E msg \in LiveMsgs(arrived + 1) : OnMessage(msg, MaxMsgs)
    \/ NextBot(LiveAi)

\* The bot when the event loop keeps running: a promise that is settled runs
\* its continuation, a timer fires, and every call of the Telegram API, of the
\* backend and of the file server returns or fails.
Fairness ==
    /\ WF_vars(\E c \in Chats, n \in Slots : RunNext(c, n))
    /\ WF_vars(\E c \in Chats, n \in Slots : TimerFires(c, n))
    /\ WF_vars(\E c \in Chats, n \in Slots : TransportReturns(c, n))
    /\ WF_vars(\E c \in Chats, n \in Slots : HttpReturns(c, n, LiveAi))
SpecLive == Init /\ [][NextLive]_vars /\ Fairness

\* ------------------------------------------------------------------ claims

Has(tr, ev) == \E i \in 1..Len(tr) : tr[i] = ev

\* C1: a handler that is in progress for a chat was enqueued after handlers
\* that have all started and finished: none of them is still waiting, in
\* progress, or was passed over.
C1StartsInEnqueueOrder ==
    \A c \in Chats : \A n \in Tickets(c) :
        InProgress(tasks[c][n]) => \A k \in 1..(n - 1) : tasks[c][k].pc = "done"

\* C2: at most one handler per chat is in progress.
C2AtMostOneInProgress ==
    \A c \in Chats : Cardinality({n \in Tickets(c) : InProgress(tasks[c][n])}) <= 1

\* a handler of the bot is suspended at the backend call, at a transport call
\* or at a delay while the next handler of the chat waits
C2Witness ==
    \E c \in Chats : \E n \in Tickets(c) :
        /\ tasks[c][n].pc \in {"post", "reply", "delay2"}
        /\ n + 1 \in Tickets(c)
        /\ tasks[c][n + 1].pc = "queued"

\* C3: after a handler has failed, every handler enqueued afterwards for the
\* chat is still executed: no handler is passed over.
C3FailureDoesNotBlock ==
    \A c \in Chats : \A n \in Tickets(c) : tasks[c][n].pc # "skipped"

\* C4: a handler whose chat has no earlier unsettled handler can start, and a
\* handler that waits for its timer can go on, whatever other chats are doing.
C4LanesIndependent ==
    \A d \in Chats : \A n \in Tickets(d) :
        /\ (/\ tasks[d][n].pc = "queued"
            /\ \A k \in 1..(n - 1) : tasks[d][k].st # "pending")
           => ENABLED RunNext(d, n)
        /\ tasks[d][n].pc = "work" => ENABLED TimerFires(d, n)

\* a handler of one chat is still in progress while a handler of another chat,
\* enqueued after it, has already finished
C4Witness ==
    \E c \in Chats, d \in Chats : \E n \in Tickets(c) :
        /\ c # d
        /\ InProgress(tasks[c][n])
        /\ outcome[d].pc = "done"
        /\ outcome[d].seq > tasks[c][n].seq

C6NothingSentWithoutAnswer ==
    \A c \in Chats :
        (outcome[c].fn = "handleMessage" /\ outcome[c].post \in {"throw", "absent"})
        => /\ ~Has(outcome[c].tr, "react")
           /\ ~Has(outcome[c].tr, "anim")
           /\ ~Has(outcome[c].tr, "reply")
           /\ outcome[c].ctx1 = outcome[c].ctx0
           /\ outcome[c].last1 = outcome[c].last0

\* the backend call of a continuation with a stored context timed out
C6Witness ==
    \E c \in Chats :
        /\ outcome[c].fn = "handleMessage"
        /\ outcome[c].post = "throw"
        /\ outcome[c].isReplyToBot
        /\ outcome[c].ctx0 # <<>>
        /\ Has(outcome[c].tr, "post")

\* C7: a handleMessage whose answer holds %sendGif%, and in which nothing
\* failed, has the flag of the second extraction pass set and has run the media
\* dispatch.
C7GifTagDispatches ==
    \A c \in Chats :
        (/\ outcome[c].fn = "handleMessage"
         /\ Has(outcome[c].aiResponse, GTAG)
         /\ outcome[c].down = {}
         /\ ~outcome[c].escaped)
        => /\ Truthy(outcome[c].gifCommand)
           /\ Has(outcome[c].tr, "select")

C9StoredPerOrigin ==
    \A c \in Chats :
        (/\ outcome[c].fn = "handleGifUpload"
         /\ outcome[c].file # 0
         /\ outcome[c].post # "throw")
        => \E i \in 1..Len(gifs) :
              /\ gifs[i].hash = outcome[c].file
              /\ gifs[i].url = Url(outcome[c].msg)

\* the visible text of an answer
FinalText(result) ==
    extractCommand(extractCommand(result, ReactionPattern)[2], GifPattern)[2]

\* C10: a handleMessage whose backend call returned a text and whose transport
\* calls all succeeded lets no exception out, has extracted the commands and,
\* when visible text is left, has sent the reply, whatever the log does.
C10LogFailureHarmless ==
    \A c \in Chats :
        (/\ outcome[c].fn = "handleMessage"
         /\ outcome[c].result # <<>>
         /\ outcome[c].down = {})
        => /\ ~outcome[c].escaped
           /\ Has(outcome[c].tr, "extract")
           /\ FinalText(outcome[c].result) # <<>> => Has(outcome[c].tr, "reply")

\* C11: a handleMessage that dispatched a reaction, has visible text left and
\* whose transport calls other than the two command dispatches all succeeded
\* has attempted the reply, whatever became of the reaction or the animation.
C11DispatchIsolated ==
    \A c \in Chats :
        (/\ outcome[c].fn = "handleMessage"
         /\ Has(outcome[c].tr, "react")
         /\ outcome[c].finalResponse # <<>>
         /\ outcome[c].down \subseteq {"react", "anim"})
        => Has(outcome[c].tr, "reply")

\* C12: no handler of the bot is ever passed over and no promise of a lane is
\* ever rejected, and every handler that was enqueued starts, comes to its end
\* and resolves its promise: from some point on, all of them have.
C12EveryUnitResolves ==
    /\ [](\A c \in Chats : \A n \in Tickets(c) :
            tasks[c][n].st # "rejected" /\ tasks[c][n].pc # "skipped")
    /\ <>[](\A c \in Chats : \A n \in Tickets(c) :
              tasks[c][n].pc = "done" /\ tasks[c][n].st = "resolved")

\* an exception left handleMessage or getAIPicture, the handler resolved all the
\* same, and the next handler of the chat has started
C12Witness ==
    \E c \in Chats : \E n \in Tickets(c) :
        /\ tasks[c][n].pc = "done"
        /\ tasks[c][n].st = "resolved"
        /\ outcome[c].escaped
        /\ n + 1 \in Tickets(c)
        /\ InProgress(tasks[c][n + 1])

\* a text of the image-intent form: the trigger word or not, then 'draw', then
\* a prompt
ImageIntent(text) ==
    \/ /\ Len(text) = 3
       /\ text[1] = DRAW /\ text[2] = SP /\ text[3][1] = "w"
    \/ /\ Len(text) = 5
       /\ text[1] = TRIG /\ text[2] = SP
       /\ text[3] = DRAW /\ text[4] = SP /\ text[5][1] = "w"

\* C13: a handler whose message is a text of the image-intent form has gone
\* into getAIPicture and requested the image; it has not looked up the context,
\* called the text backend, extracted commands, dispatched a reaction or sent a
\* text reply, and it has left the context and the sent ids of the chat as
\* they were, whether the image was sent or not.
C13DrawBypassesText ==
    \A c \in Chats :
        (outcome[c].msg.kind = "text" /\ ImageIntent(outcome[c].msg.text))
        => /\ outcome[c].fn = "getAIPicture"
           /\ Has(outcome[c].tr, "imgget")
           /\ \A ev \in {"lookup", "post", "extract", "react", "context", "reply",
                         "record"} : ~Has(outcome[c].tr, ev)
           /\ outcome[c].ctx1 = outcome[c].ctx0
           /\ outcome[c].last1 = outcome[c].last0

\* an image request that is itself a reply to the bot, in a chat with a stored
\* context, was answered with the photo
C13Witness ==
    \E c \in Chats :
        /\ outcome[c].fn = "getAIPicture"
        /\ outcome[c].msg.reply
        /\ outcome[c].ctx0 # <<>>
        /\ Has(outcome[c].tr, "photo")
        /\ ~outcome[c].escaped

\* the position in the order of arrival of the message a user turn came from
TurnOrigin(turn) == turn.content[1][2]

\* C14: a continuation that has not written the context yet holds a snapshot
\* equal to the stored context, so what it writes is built from the context as
\* it stands; a handler that wrote the context has added its pair to the
\* context it found when it began and dropped nothing but the oldest turns; and
\* the user turns of a stored context are in the order of enqueueing.
C14ContextRaceFree ==
    /\ \A c \in Chats : \A n \in Tickets(c) :
          (/\ tasks[c][n].fn = "handleMessage"
           /\ tasks[c][n].isReplyToBot
           /\ InProgress(tasks[c][n])
           /\ ~Has(tasks[c][n].tr, "context"))
          => tasks[c][n].context = messageContexts[c]
    /\ \A c \in Chats :
          Has(outcome[c].tr, "context")
          => LET whole == outcome[c].ctx0
                             \o <<Turn("user", outcome[c].text),
                                  Turn("assistant", outcome[c].finalResponse)>>
             IN  /\ Len(outcome[c].ctx1) >= 2
                 /\ \A i \in 1..Len(outcome[c].ctx1) :
                       outcome[c].ctx1[i]
                           = whole[Len(whole) - Len(outcome[c].ctx1) + i]
                 /\ Len(outcome[c].ctx1) = Len(whole) \/ Len(outcome[c].ctx1) >= ContextKeep
    /\ \A c \in Chats : \A i, j \in 1..Len(messageContexts[c]) :
          (/\ i < j
           /\ messageContexts[c][i].role = "user"
           /\ messageContexts[c][j].role = "user")
          => TurnOrigin(messageContexts[c][i]) < TurnOrigin(messageContexts[c][j])

\* a continuation has written the context, the next one waits for the backend
\* with a snapshot equal to what was written, and a third one is enqueued behind
\* it
C14Witness ==
    \E c \in Chats : \E n \in Tickets(c) :
        /\ Has(outcome[c].tr, "context")
        /\ tasks[c][n].pc = "post"
        /\ tasks[c][n].context = outcome[c].ctx1
        /\ tasks[c][n].context # <<>>
        /\ n + 1 \in Tickets(c)
        /\ tasks[c][n + 1].pc = "queued"

\* a handleMessage that sent its reply
Delivered(o) ==
    /\ o.fn = "handleMessage"
    /\ Has(o.tr, "reply")
    /\ "reply" \notin o.down
    /\ ~o.escaped

\* the position of the first call ev in the trace tr, 0 when there is none
Pos(tr, ev) == FirstIndex(tr, ev)

\* C15 as stated: in a handleMessage that sent its reply, the event-log write
\* that records the response comes after the reply.
C15LogAfterReply ==
    \A c \in Chats :
        Delivered(outcome[c])
        => Pos(outcome[c].tr, "reply") < Pos(outcome[c].tr, "log:RESPONSE")

\* C15 amended: in a handleMessage that sent its reply the steps are, in this
\* order: context lookup, backend call, the one event-log write that records
\* the response, extraction, the reaction when one was extracted, the media
\* dispatch when there is one, the context update when the exchange is a
\* continuation, the reply, and the recording of the sent id.
C15StepOrder ==
    \A c \in Chats :
        Delivered(outcome[c])
        => LET tr == outcome[c].tr IN
           /\ 0 < Pos(tr, "lookup")
           /\ Pos(tr, "lookup") < Pos(tr, "post")
           /\ Pos(tr, "post") < Pos(tr, "log:RESPONSE")
           /\ Pos(tr, "log:RESPONSE") < Pos(tr, "extract")
           /\ Pos(tr, "extract") < Pos(tr, "reply")
           /\ Cardinality({i \in 1..Len(tr) : tr[i] = "log:RESPONSE"}) = 1
           /\ Truthy(outcome[c].reaction) <=> Has(tr, "react")
           /\ Has(tr, "react")
                 => /\ Pos(tr, "extract") < Pos(tr, "react")
                    /\ Pos(tr, "react") < Pos(tr, "reply")
           /\ Has(tr, "select")
                 => /\ Pos(tr, "extract") < Pos(tr, "select")
                    /\ Pos(tr, "react") < Pos(tr, "select")
                    /\ Pos(tr, "select") < Pos(tr, "reply")
           /\ outcome[c].isReplyToBot <=> Has(tr, "context")
           /\ Has(tr, "context")
                 => /\ Pos(tr, "extract") < Pos(tr, "context")
                    /\ Pos(tr, "react") < Pos(tr, "context")
                    /\ Pos(tr, "select") < Pos(tr, "context")
                    /\ Pos(tr, "context") < Pos(tr, "reply")
           /\ Has(tr, "record") => Pos(tr, "reply") < Pos(tr, "record")

\* a continuation whose answer held a reaction was delivered: reaction set,
\* context updated, reply sent, sent id recorded
C15Witness ==
    \E c \in Chats :
        /\ Delivered(outcome[c])
        /\ Has(outcome[c].tr, "react")
        /\ "react" \notin outcome[c].down
        /\ Has(outcome[c].tr, "context")
        /\ Has(outcome[c].tr, "record")

\* C16: a continuation that sent its reply has skipped the recording of the sent
\* id when its answer held the media tag and the media cache held an item to
\* send, and has otherwise appended the sent id to the most recent ids of the
\* chat; the list never holds more than 10 ids.
C16RecordsUnlessMedia ==
    \A c \in Chats :
        /\ Len(lastBotMessages[c]) <= LastKeep + 1
        /\ (Delivered(outcome[c]) /\ outcome[c].isReplyToBot)
           => IF Has(outcome[c].aiResponse, GTAG)
              THEN outcome[c].rows0 > 0 => outcome[c].last1 = outcome[c].last0
              ELSE outcome[c].last1
                       = SliceLast(outcome[c].last0 \o <<SentId(outcome[c].msg)>>,
                                   LastKeep + 1)

\* C17: a handleMessage that is not a reply to the bot has an empty context, has
\* sent the backend the system preamble and the new user turn and nothing
\* else, and has left the stored context and the sent ids of the chat as they
\* were; a handleMessage that is a reply to the bot has read the stored context.
C17FreshTriggerFrame ==
    \A c \in Chats :
        outcome[c].fn = "handleMessage"
        => IF outcome[c].isReplyToBot
           THEN outcome[c].context = outcome[c].ctx0
           ELSE /\ outcome[c].context = <<>>
                /\ Has(outcome[c].tr, "post")
                      => /\ Len(outcome[c].request) = 2
                         /\ outcome[c].request[1].role = "system"
                         /\ outcome[c].request[2]
                                = Turn("user", Prompt(outcome[c].text))
                /\ outcome[c].ctx1 = outcome[c].ctx0
                /\ outcome[c].last1 = outcome[c].last0

\* a fresh trigger in a chat that has a stored context and a recorded sent id
\* was answered and the reply was sent
C17Witness ==
    \E c \in Chats :
        /\ Delivered(outcome[c])
        /\ ~outcome[c].isReplyToBot
        /\ outcome[c].ctx0 # <<>>
        /\ outcome[c].last0 # <<>>

\* C18: the request of every backend call is the system preamble, then the
\* most recent min(8, n) turns of the n turns of the handler's context in their
\* order, then the new user turn.
C18WindowOfEight ==
    \A c \in Chats : \A n \in Tickets(c) :
        Has(tasks[c][n].tr, "post")
        => LET context == tasks[c][n].context
               request == tasks[c][n].request
               k == IF Len(context) < ContextWindow THEN Len(context)
                    ELSE ContextWindow
           IN  /\ Len(request) = k + 2
               /\ request[1] = Turn("system", <<>>)
               /\ \A i \in 1..k : request[1 + i] = context[Len(context) - k + i]
               /\ request[k + 2] = Turn("user", Prompt(tasks[c][n].text))

\* a backend call is under way for a continuation whose context has all the 20
\* turns the store keeps: 8 of them are in the request
C18Witness ==
    \E c \in Chats : \E n \in Tickets(c) :
        /\ tasks[c][n].pc = "post"
        /\ Len(tasks[c][n].context) = ContextKeep + 2
        /\ Len(tasks[c][n].request) = ContextWindow + 2

\* C19: the stored context of every chat has even length, its odd turns are
\* user turns and its even turns are assistant turns.
C19ContextAlternates ==
    \A c \in Chats :
        /\ Len(messageContexts[c]) % 2 = 0
        /\ \A i \in 1..Len(messageContexts[c]) :
              messageContexts[c][i].role
                  = IF i % 2 = 1 THEN "user" ELSE "assistant"

\* the front of a full context was cut: the stored context begins with the pair
\* of the second exchange and the handler that cut it is still in progress
C19Witness ==
    \E c \in Chats : \E n \in Tickets(c) :
        /\ InProgress(tasks[c][n])
        /\ Has(tasks[c][n].tr, "context")
        /\ Len(tasks[c][n].context) > ContextKeep
        /\ messageContexts[c][1].role = "user"
        /\ messageContexts[c][1] # tasks[c][n].context[1]
        /\ messageContexts[c][2].role = "assistant"

\* C20: the gifs table never holds two rows with the same hash.
C20OneRowPerHash ==
    \A i \in 1..Len(gifs) : \A j \in 1..Len(gifs) :
        gifs[i].hash = gifs[j].hash => i = j

\* an upload has passed the existence check and awaits its download while an
\* upload of the same file in another message is enqueued behind it
C20Witness ==
    \E c \in Chats : \E n \in Tickets(c) :
        /\ tasks[c][n].fn = "handleGifUpload"
        /\ tasks[c][n].pc = "download"
        /\ n + 1 \in Tickets(c)
        /\ tasks[c][n + 1].pc = "queued"
        /\ tasks[c][n + 1].msg.kind = "anim"
        /\ tasks[c][n + 1].msg.file = tasks[c][n].file
        /\ tasks[c][n + 1].msg.mid # tasks[c][n].msg.mid

====
